---------------------------- MODULE Spec2Model ----------------------------
(***************************************************************************)
(* Model of the ban-decision engine of ssh_fb                              *)
(* (src/internal/monitor/monitor.go): the Monitor's two maps and its       *)
(* RWMutex, the blacklist file, the log-processing goroutine (Start,       *)
(* loadBlacklist, monitorSSHLogs, handleFailedLogin, handleSuccessfulLogin,*)
(* banIP, saveBlacklist, isIPBanned) and the sweeper goroutine             *)
(* (cleanupBannedIPs).  Time is counted in hours.                          *)
(***************************************************************************)
EXTENDS Integers, Sequences, FiniteSets, TLC

VARIABLES
    now,             \* time.Now(), in hours
    failedAttempts,  \* Monitor.failedAttempts : map[string]int
    bannedIPs,       \* Monitor.bannedIPs      : map[string]time.Time
    mu,              \* Monitor.mu             : sync.RWMutex
    blacklistFile,   \* content of config.Blacklist.File, a sequence of tokens
    pc,              \* position of the two goroutines
    cur,             \* argument ip of the handler the log goroutine is running
    calls,           \* collaborator calls made by the handler in progress
    logs,            \* logger records written by the handler in progress
    ticker,          \* the sweeper's time.Ticker: next fire time and its channel
    sweep,           \* the sweeper's range loop over bannedIPs
    startErr,        \* what Start returned, once it has returned
    ufw,             \* the deny rules this process has put in ufw, by address
    logFile          \* the sshd log: its data, and the offset of the tailer in it

vars == <<now, failedAttempts, bannedIPs, mu, blacklistFile, pc, cur, calls,
          logs, ticker, sweep, startErr, ufw, logFile>>

---------------------------------------------------------------------------
(* Bounds and configuration *)

\* Largest value of the clock explored.
MaxTime == 3

\* Largest number of tokens of the blacklist file found at startup.
MaxFileTokens == 2

\* Largest number of pieces of the sshd log the tailer has not read yet.
MaxUnread == 2

\* config.SSHProtection.MaxFailedAttempts (validated > 0).
MaxFailedAttempts == 3

\* config.SSHProtection.BanDurationHours (validated > 0).
BanDurationHours == 2

\* config.Blacklist.CleanupIntervalHours (validated > 0; 24 in the shipped
\* configuration).
CleanupIntervalHours == 2

\* config.IPInfo.RetryCount and config.IPInfo.RetryInterval (seconds).
RetryCount == 2

RetryInterval == 1

\* time.NewTicker(1 * time.Hour) in cleanupBannedIPs.
TickerPeriod == 1

\* Addresses the extractor can produce.
IPs == {"10.0.0.1", "10.0.0.2"}

\* The line terminator written by saveBlacklist and split on by bufio.Scanner.
NL == "\n"

NoIP == "none"
NoOwner == "none"

\* The sweeper's loop state between two ticks.
NoSweep == [todo |-> {}, unbans |-> <<>>, t0 |-> 0,
            banned0 |-> <<>>, attempts0 |-> <<>>]

\* The handler's locals when no handler runs: ip, banTime of banIP, and what
\* its call of isIPBanned did: whether it deleted an expired record, and the
\* count of the attempts it deleted with it.
NoCall == [ip |-> NoIP, banTime |-> 0, expired |-> FALSE, dropped |-> 0]

---------------------------------------------------------------------------
(* Go maps as functions with a finite domain *)

MapGet(m, k) == IF k \in DOMAIN m THEN m[k] ELSE 0

MapPut(m, k, v) == [x \in (DOMAIN m) \cup {k} |-> IF x = k THEN v ELSE m[x]]

MapDelete(m, k) == [x \in (DOMAIN m) \ {k} |-> m[x]]

EmptyMap == [x \in {} |-> 0]

---------------------------------------------------------------------------
(* The blacklist file: bufio.Scanner over the file, one text per line *)

\* bufio.ScanLines: the token runs between terminators; a last run without a
\* terminator is a line too, an empty one is not.
RECURSIVE ScanLines(_, _)
ScanLines(data, acc) ==
    IF data = <<>>
    THEN IF acc = <<>> THEN <<>> ELSE <<acc>>
    ELSE IF Head(data) = NL
         THEN <<acc>> \o ScanLines(Tail(data), <<>>)
         ELSE ScanLines(Tail(data), Append(acc, Head(data)))

\* scanner.Text() of one line: the files considered hold at most one address
\* between two terminators.
LineText(line) == IF line = <<>> THEN "" ELSE line[1]

\* The for-loop of loadBlacklist over the first n lines: every non-empty text
\* becomes a key of the map, with expiry t + BanDurationHours.
RECURSIVE LoadLines(_, _, _, _)
LoadLines(lines, n, m, t) ==
    IF n = 0 \/ lines = <<>>
    THEN m
    ELSE LET ip == LineText(Head(lines))
         IN  LoadLines(Tail(lines), n - 1,
                       IF ip # "" THEN MapPut(m, ip, t + BanDurationHours) ELSE m,
                       t)

\* loadBlacklist at time t, the whole file read, into the map m.
loadBlacklist(m, file, t) ==
    LET lines == ScanLines(file, <<>>)
    IN  LoadLines(lines, Len(lines), m, t)

\* Files that can be found at startup: tokens are addresses and terminators,
\* never two addresses without a terminator between them.
Tokens == IPs \cup {NL}

WellFormedFile(f) ==
    \A i \in 1..(Len(f) - 1) : ~(f[i] \in IPs /\ f[i + 1] \in IPs)

InitFiles ==
    {f \in UNION {[1..n -> Tokens] : n \in 0..MaxFileTokens} : WellFormedFile(f)}

---------------------------------------------------------------------------
(* Initial state: NewMonitor has returned, Start has not been called *)

\* The Monitor and its surroundings, the sshd log apart.
InitMonitor ==
    /\ now = 0
    /\ failedAttempts = EmptyMap
    /\ bannedIPs = EmptyMap
    /\ mu = [writer |-> NoOwner, readers |-> 0]
    /\ blacklistFile \in InitFiles
    /\ pc = [log |-> "start", sweeper |-> "none"]
    /\ cur = NoCall
    /\ calls = <<>>
    /\ logs = <<>>
    /\ ticker = [next |-> 0, pending |-> FALSE]
    /\ sweep = NoSweep
    /\ startErr = "none"
    /\ ufw = <<>>

\* A line without marker and without address; it stands for the local
\* variable line of monitorSSHLogs when no handler is running.
NoLine == [failed |-> FALSE, accepted |-> FALSE, from |-> NoIP]

\* The sshd log at its start: no data, and no file opened on it.
NoLog == [data |-> <<>>, pos |-> 0, size0 |-> 0, line |-> NoLine]

\* The monitor started on an empty sshd log.
Init == InitMonitor /\ logFile = NoLog

\* logger.Fatal in main ends the process once Start has returned an error.
Running == startErr = "none"

---------------------------------------------------------------------------
(* Helpers of the actions *)

Goto(p, l) == pc' = [pc EXCEPT ![p] = l]

At(p, l) == Running /\ pc[p] = l

\* A log line, as far as monitorSSHLogs looks at it: whether it contains each
\* marker, and the address the regexp `from (\d+\.\d+\.\d+\.\d+)` finds first.
Lines == [failed : BOOLEAN, accepted : BOOLEAN, from : IPs \cup {NoIP}]

\* The accepted marker tested first, the failed marker in the else branch.
Extract_AcceptedFirst(line) ==
    IF line.accepted
    THEN IF line.from # NoIP THEN [kind |-> "success", ip |-> line.from]
                             ELSE [kind |-> "none", ip |-> NoIP]
    ELSE IF line.failed
         THEN IF line.from # NoIP THEN [kind |-> "failed", ip |-> line.from]
                                  ELSE [kind |-> "none", ip |-> NoIP]
         ELSE [kind |-> "none", ip |-> NoIP]

\* monitorSSHLogs, lines 157-169: the failed marker is tested first, the
\* accepted marker only in its else branch; no match of the regexp, no call.
Extract(line) ==
    IF line.failed
    THEN IF line.from # NoIP THEN [kind |-> "failed", ip |-> line.from]
                             ELSE [kind |-> "none", ip |-> NoIP]
    ELSE IF line.accepted
         THEN IF line.from # NoIP THEN [kind |-> "success", ip |-> line.from]
                                  ELSE [kind |-> "none", ip |-> NoIP]
         ELSE [kind |-> "none", ip |-> NoIP]

\* A Lock that only waits for the readers.
CanLock_IgnoresWriter == mu.readers = 0

---------------------------------------------------------------------------
(* The sshd log file, as os.Open, Seek and bufio.Reader.ReadString see it *)

\* The data of the file is a sequence of pieces: the newline byte, or a piece
\* of text without newline, of which the tailer will only look at the two
\* markers and at the first address after "from".
NLPiece == [nl |-> TRUE, failed |-> FALSE, accepted |-> FALSE, from |-> NoIP]

TextPiece(line) == [nl |-> FALSE, failed |-> line.failed,
                    accepted |-> line.accepted, from |-> line.from]

Pieces == {NLPiece} \cup {TextPiece(line) : line \in Lines}

\* The line made of the text pieces q: it contains a marker when one of them
\* does, and the leftmost address is the one of the first piece that has one.
RECURSIVE FirstFrom(_)
FirstFrom(q) ==
    IF q = <<>> THEN NoIP
    ELSE IF Head(q).from # NoIP THEN Head(q).from ELSE FirstFrom(Tail(q))

LineOf(q) ==
    [failed   |-> \E i \in 1..Len(q) : q[i].failed,
     accepted |-> \E i \in 1..Len(q) : q[i].accepted,
     from     |-> FirstFrom(q)]

\* reader.ReadString('\n') at offset pos: the data up to and including the
\* first newline, with a nil error; or, when there is no newline left, what
\* data there is, with io.EOF.  Either way the offset moves past the data
\* returned.
ReadString(data, pos) ==
    LET nls == {j \in (pos + 1)..Len(data) : data[j].nl}
    IN  IF nls = {}
        THEN [err |-> "EOF", text |-> SubSeq(data, pos + 1, Len(data)),
              pos |-> Len(data)]
        ELSE LET j == CHOOSE k \in nls : \A l \in nls : k <= l
             IN  [err |-> "nil", text |-> SubSeq(data, pos + 1, j - 1),
                  pos |-> j]

\* The tailer never seeks back: the data it has read past, beyond the data
\* the file had when it was opened, is left out of the state.
Forget(f) ==
    IF f.pos > f.size0
    THEN [f EXCEPT !.data = SubSeq(f.data, 1, f.size0)
                            \o SubSeq(f.data, f.pos + 1, Len(f.data)),
                   !.pos = f.size0]
    ELSE f

\* file.Seek(0, 0): the offset is put at the start of the file.
SeekEnd_Start(f) == [f EXCEPT !.pos = 0, !.size0 = Len(f.data)]

\* file.Seek(0, 2): the offset is put at the end of the file.
SeekEnd(f) == [f EXCEPT !.pos = Len(f.data), !.size0 = Len(f.data)]

\* sync.RWMutex: Lock needs no writer and no reader, RLock needs no writer.
\* The mutex is not reentrant: the owner is not looked at.
CanLock == mu.writer = NoOwner /\ mu.readers = 0

CanRLock == mu.writer = NoOwner

---------------------------------------------------------------------------
(* The firewall: UFW.BanIP and UFW.UnbanIP *)

\* UFW.BanIP runs "ufw deny from ip to any": the rule is there when the
\* command succeeded, and BanIP returns an error when it did not.
UFW_BanIP(rules, ip, ok) == IF ok THEN MapPut(rules, ip, "deny") ELSE rules

\* UFW.UnbanIP runs "ufw delete deny from ip to any": the rule is gone when
\* the command succeeded; when it did not, a rule that was there stays, and
\* is marked as one whose deletion has been tried.
UFW_UnbanIP(rules, ip, ok) ==
    IF ok THEN MapDelete(rules, ip)
    ELSE IF ip \in DOMAIN rules THEN [rules EXCEPT ![ip] = "delete failed"]
    ELSE rules

---------------------------------------------------------------------------
(* Start, lines 56-67 *)

\* Start going on after a loadBlacklist whose scanner stopped with an error.
Start_loadBlacklist_IgnoresError ==
    /\ At("log", "start")
    /\ LET lines == ScanLines(blacklistFile, <<>>)
       IN  \/ /\ bannedIPs' = loadBlacklist(bannedIPs, blacklistFile, now)
              /\ Goto("log", "spawn")
              /\ UNCHANGED startErr
           \/ /\ UNCHANGED bannedIPs
              /\ startErr' = "loadBlacklist: open"
              /\ Goto("log", "exited")
           \/ \E n \in 0..(Len(lines) - 1) :
                 /\ bannedIPs' = LoadLines(lines, n, bannedIPs, now)
                 /\ UNCHANGED startErr
                 /\ Goto("log", "spawn")
    /\ UNCHANGED <<now, failedAttempts, mu, blacklistFile, cur, calls, logs,
                   ticker, sweep, ufw, logFile>>

\* m.loadBlacklist(): the file cannot be opened, or is scanned to its end, or
\* the scanner stops with an error after n lines.  An error ends Start.
Start_loadBlacklist ==
    /\ At("log", "start")
    /\ LET lines == ScanLines(blacklistFile, <<>>)
       IN  \/ /\ bannedIPs' = loadBlacklist(bannedIPs, blacklistFile, now)
              /\ Goto("log", "spawn")
              /\ UNCHANGED startErr
           \/ /\ UNCHANGED bannedIPs
              /\ startErr' = "loadBlacklist: open"
              /\ Goto("log", "exited")
           \/ \E n \in 0..(Len(lines) - 1) :
                 /\ bannedIPs' = LoadLines(lines, n, bannedIPs, now)
                 /\ startErr' = "loadBlacklist: scan"
                 /\ Goto("log", "exited")
    /\ UNCHANGED <<now, failedAttempts, mu, blacklistFile, cur, calls, logs,
                   ticker, sweep, ufw, logFile>>

\* go m.cleanupBannedIPs()
Start_go ==
    /\ At("log", "spawn")
    /\ pc' = [log |-> "open", sweeper |-> "newticker"]
    /\ UNCHANGED <<now, failedAttempts, bannedIPs, mu, blacklistFile, cur,
                   calls, logs, ticker, sweep, startErr, ufw, logFile>>

---------------------------------------------------------------------------
(* monitorSSHLogs, lines 136-171 *)

\* os.Open of the log and the seek to its end.
monitorSSHLogs_Open ==
    /\ At("log", "open")
    /\ \/ /\ logFile' = SeekEnd(logFile)
          /\ Goto("log", "read")
          /\ UNCHANGED startErr
       \/ /\ startErr' = "monitorSSHLogs: open"
          /\ Goto("log", "exited")
          /\ UNCHANGED logFile
    /\ UNCHANGED <<now, failedAttempts, bannedIPs, mu, blacklistFile, cur,
                   calls, logs, ticker, sweep, ufw>>

\* Lines 157-169 for the line just read: the handler of its event is
\* called, or the loop goes on to the next read.
Dispatch(line) ==
    LET ev == Extract(line)
    IN  /\ cur' = IF ev.kind = "none" THEN NoCall
                  ELSE [NoCall EXCEPT !.ip = ev.ip]
        /\ Goto("log", CASE ev.kind = "failed"  -> "hfl_lock"
                         [] ev.kind = "success" -> "hsl"
                         [] OTHER               -> "read")

\* reader.ReadString returns a line, one that sshd has appended since the
\* last read: what the line is is left open.
monitorSSHLogs_ReadLine ==
    /\ At("log", "read")
    /\ \E line \in Lines : Dispatch(line)
    /\ UNCHANGED <<now, failedAttempts, bannedIPs, mu, blacklistFile, calls,
                   logs, ticker, sweep, startErr, ufw, logFile>>

\* reader.ReadString returns io.EOF: sleep 100ms, then read again.
monitorSSHLogs_ReadEOF ==
    /\ At("log", "read")
    /\ Goto("log", "sleep")
    /\ UNCHANGED <<now, failedAttempts, bannedIPs, mu, blacklistFile, cur,
                   calls, logs, ticker, sweep, startErr, ufw, logFile>>

monitorSSHLogs_Wake ==
    /\ At("log", "sleep")
    /\ Goto("log", "read")
    /\ UNCHANGED <<now, failedAttempts, bannedIPs, mu, blacklistFile, cur,
                   calls, logs, ticker, sweep, startErr, ufw, logFile>>

\* reader.ReadString returns another error: monitorSSHLogs returns it.
monitorSSHLogs_ReadError ==
    /\ At("log", "read")
    /\ startErr' = "monitorSSHLogs: read"
    /\ Goto("log", "exited")
    /\ UNCHANGED <<now, failedAttempts, bannedIPs, mu, blacklistFile, cur,
                   calls, logs, ticker, sweep, ufw, logFile>>

\* sshd appends a piece to its log.  The tailer looks at the file in
\* ReadString only, so a piece appended while a handler runs or while the
\* loop sleeps is taken as appended just before the next ReadString.
AppendLog ==
    /\ At("log", "read")
    /\ Len(logFile.data) - logFile.pos < MaxUnread
    /\ \E piece \in Pieces :
          logFile' = [logFile EXCEPT !.data = Append(@, piece)]
    /\ UNCHANGED <<now, failedAttempts, bannedIPs, mu, blacklistFile, pc, cur,
                   calls, logs, ticker, sweep, startErr, ufw>>

\* reader.ReadString finds a newline in the file: the line before it goes to
\* lines 157-169.
monitorSSHLogs_ReadString ==
    /\ At("log", "read")
    /\ LET r == ReadString(logFile.data, logFile.pos)
           line == LineOf(r.text)
       IN  /\ r.err = "nil"
           /\ logFile' = Forget([logFile EXCEPT
                                    !.pos = r.pos,
                                    !.line = IF Extract(line).kind = "none"
                                             THEN NoLine ELSE line])
           /\ Dispatch(line)
    /\ UNCHANGED <<now, failedAttempts, bannedIPs, mu, blacklistFile, calls,
                   logs, ticker, sweep, startErr, ufw>>

\* reader.ReadString reaches the end of the file without a newline: it
\* returns what it has read with io.EOF, and lines 150-153 sleep and read
\* again without looking at it.
monitorSSHLogs_ReadStringEOF ==
    /\ At("log", "read")
    /\ LET r == ReadString(logFile.data, logFile.pos)
       IN  /\ r.err = "EOF"
           /\ logFile' = Forget([logFile EXCEPT !.pos = r.pos])
    /\ Goto("log", "sleep")
    /\ UNCHANGED <<now, failedAttempts, bannedIPs, mu, blacklistFile, cur,
                   calls, logs, ticker, sweep, startErr, ufw>>

---------------------------------------------------------------------------
(* isIPBanned, lines 243-253 *)

\* isIPBanned with its time test turned around (After for Before): a record
\* that has not expired is deleted and reported as not banned.
isIPBanned_Inverted(ip) ==
    IF ip \in DOMAIN bannedIPs
    THEN IF now > bannedIPs[ip]
         THEN [ret |-> TRUE, bannedIPs |-> bannedIPs,
               failedAttempts |-> failedAttempts]
         ELSE [ret |-> FALSE, bannedIPs |-> MapDelete(bannedIPs, ip),
               failedAttempts |-> MapDelete(failedAttempts, ip)]
    ELSE [ret |-> FALSE, bannedIPs |-> bannedIPs,
          failedAttempts |-> failedAttempts]

\* isIPBanned without its second delete: the attempts of an expired record
\* are kept.
isIPBanned_KeepsAttempts(ip) ==
    IF ip \in DOMAIN bannedIPs
    THEN IF now < bannedIPs[ip]
         THEN [ret |-> TRUE, bannedIPs |-> bannedIPs,
               failedAttempts |-> failedAttempts]
         ELSE [ret |-> FALSE, bannedIPs |-> MapDelete(bannedIPs, ip),
               failedAttempts |-> failedAttempts]
    ELSE [ret |-> FALSE, bannedIPs |-> bannedIPs,
          failedAttempts |-> failedAttempts]

\* isIPBanned deleting the attempts of a record that has not expired.
isIPBanned_ClearsOnHit(ip) ==
    IF ip \in DOMAIN bannedIPs
    THEN IF now < bannedIPs[ip]
         THEN [ret |-> TRUE, bannedIPs |-> bannedIPs,
               failedAttempts |-> MapDelete(failedAttempts, ip)]
         ELSE [ret |-> FALSE, bannedIPs |-> MapDelete(bannedIPs, ip),
               failedAttempts |-> MapDelete(failedAttempts, ip)]
    ELSE [ret |-> FALSE, bannedIPs |-> bannedIPs,
          failedAttempts |-> failedAttempts]

\* What isIPBanned(ip) returns and what it leaves in the two maps: a record
\* that has not expired is kept, one that has is deleted with its attempts.
isIPBanned(ip) ==
    IF ip \in DOMAIN bannedIPs
    THEN IF now < bannedIPs[ip]
         THEN [ret |-> TRUE, bannedIPs |-> bannedIPs,
               failedAttempts |-> failedAttempts]
         ELSE [ret |-> FALSE, bannedIPs |-> MapDelete(bannedIPs, ip),
               failedAttempts |-> MapDelete(failedAttempts, ip)]
    ELSE [ret |-> FALSE, bannedIPs |-> bannedIPs,
          failedAttempts |-> failedAttempts]

---------------------------------------------------------------------------
(* handleFailedLogin, lines 176-200 *)

\* m.mu.Lock()
handleFailedLogin_Lock ==
    /\ At("log", "hfl_lock")
    /\ CanLock
    /\ mu' = [mu EXCEPT !.writer = "log"]
    /\ Goto("log", "hfl_check")
    /\ UNCHANGED <<now, failedAttempts, bannedIPs, blacklistFile, cur, calls,
                   logs, ticker, sweep, startErr, ufw, logFile>>

\* isIPBanned lifting the block itself when it deletes an expired record.
handleFailedLogin_Check_Unblocks ==
    /\ At("log", "hfl_check")
    /\ LET r == isIPBanned(cur.ip)
           gone == r.bannedIPs # bannedIPs
       IN  /\ bannedIPs' = r.bannedIPs
           /\ failedAttempts' = r.failedAttempts
           /\ cur' = [cur EXCEPT !.expired = gone,
                                 !.dropped = MapGet(failedAttempts, cur.ip)
                                             - MapGet(r.failedAttempts, cur.ip)]
           /\ calls' = IF gone
                       THEN Append(calls, [op |-> "UnbanIP", ip |-> cur.ip,
                                           ok |-> TRUE])
                       ELSE calls
           /\ ufw' = IF gone THEN UFW_UnbanIP(ufw, cur.ip, TRUE) ELSE ufw
           /\ IF r.ret
              THEN /\ logs' = Append(logs, [level |-> "warn",
                                            msg |-> "banned ip tried to log in",
                                            ip |-> cur.ip])
                   /\ Goto("log", "hfl_unlock")
              ELSE /\ UNCHANGED logs
                   /\ Goto("log", "hfl_count")
    /\ UNCHANGED <<now, mu, blacklistFile, ticker, sweep, startErr, logFile>>

\* if m.isIPBanned(ip) { warn; return }
handleFailedLogin_Check ==
    /\ At("log", "hfl_check")
    /\ LET r == isIPBanned(cur.ip)
       IN  /\ bannedIPs' = r.bannedIPs
           /\ failedAttempts' = r.failedAttempts
           /\ cur' = [cur EXCEPT !.expired = (r.bannedIPs # bannedIPs),
                                 !.dropped = MapGet(failedAttempts, cur.ip)
                                             - MapGet(r.failedAttempts, cur.ip)]
           /\ IF r.ret
              THEN /\ logs' = Append(logs, [level |-> "warn",
                                            msg |-> "banned ip tried to log in",
                                            ip |-> cur.ip])
                   /\ Goto("log", "hfl_unlock")
              ELSE /\ UNCHANGED logs
                   /\ Goto("log", "hfl_count")
    /\ UNCHANGED <<now, mu, blacklistFile, calls, ticker, sweep, startErr, ufw, logFile>>

\* The threshold test with > for >=.
ReachedThreshold_Late(n) == n > MaxFailedAttempts

\* The count that makes handleFailedLogin call banIP.
ReachedThreshold(n) == n >= MaxFailedAttempts

\* m.failedAttempts[ip]++, the warning, and the threshold test.
handleFailedLogin_Count ==
    /\ At("log", "hfl_count")
    /\ LET n == MapGet(failedAttempts, cur.ip) + 1
       IN  /\ failedAttempts' = MapPut(failedAttempts, cur.ip, n)
           /\ logs' = Append(logs, [level |-> "warn", msg |-> "login failed",
                                    ip |-> cur.ip, attempts |-> n,
                                    max_attempts |-> MaxFailedAttempts])
           /\ Goto("log", IF ReachedThreshold(n) THEN "ban_set" ELSE "hfl_notify")
    /\ UNCHANGED <<now, bannedIPs, mu, blacklistFile, cur, calls, ticker,
                   sweep, startErr, ufw, logFile>>

\* m.telegram.NotifyLoginFailed(ip, ipInfo, server, attempts, max); its
\* result is dropped.
handleFailedLogin_Notify ==
    /\ At("log", "hfl_notify")
    /\ \E ok \in BOOLEAN :
          calls' = Append(calls, [op |-> "NotifyLoginFailed", ip |-> cur.ip,
                                  attempts |-> MapGet(failedAttempts, cur.ip),
                                  maxAttempts |-> MaxFailedAttempts,
                                  ok |-> ok])
    /\ Goto("log", "hfl_unlock")
    /\ UNCHANGED <<now, failedAttempts, bannedIPs, mu, blacklistFile, cur,
                   logs, ticker, sweep, startErr, ufw, logFile>>

\* The deferred m.mu.Unlock() and the return to the read loop.
handleFailedLogin_Unlock ==
    /\ At("log", "hfl_unlock")
    /\ mu' = [mu EXCEPT !.writer = NoOwner]
    /\ cur' = NoCall
    /\ calls' = <<>>
    /\ logs' = <<>>
    /\ logFile' = [logFile EXCEPT !.line = NoLine]
    /\ Goto("log", "read")
    /\ UNCHANGED <<now, failedAttempts, bannedIPs, blacklistFile, ticker,
                   sweep, startErr, ufw>>

---------------------------------------------------------------------------
(* banIP, lines 216-236, called by handleFailedLogin with m.mu held *)

\* banTime := time.Now().Add(BanDurationHours * time.Hour)
BanTime == now + BanDurationHours

\* m.bannedIPs[ip] = banTime
banIP_Set ==
    /\ At("log", "ban_set")
    /\ cur' = [cur EXCEPT !.banTime = BanTime]
    /\ bannedIPs' = MapPut(bannedIPs, cur.ip, BanTime)
    /\ Goto("log", "ban_fw")
    /\ UNCHANGED <<now, failedAttempts, mu, blacklistFile, calls, logs,
                   ticker, sweep, startErr, ufw, logFile>>

\* banIP's error treated as fatal: the log goroutine ends on it.
AfterBlock_Fatal(ok) == IF ok THEN "save_open" ELSE "exited"

\* Where banIP goes after m.firewall.BanIP(ip): on an error it logs and
\* returns, so handleFailedLogin goes on with its notification.
AfterBlock(ok) == IF ok THEN "save_open" ELSE "hfl_notify"

\* banIP undoing line 218 when BanIP failed: the record is deleted before the
\* return.
banIP_Firewall_Rollback ==
    /\ At("log", "ban_fw")
    /\ \E ok \in BOOLEAN :
          /\ calls' = Append(calls, [op |-> "BanIP", ip |-> cur.ip, ok |-> ok])
          /\ ufw' = UFW_BanIP(ufw, cur.ip, ok)
          /\ logs' = IF ok THEN logs
                     ELSE Append(logs, [level |-> "error",
                                        msg |-> "ban failed", ip |-> cur.ip])
          /\ bannedIPs' = IF ok THEN bannedIPs ELSE MapDelete(bannedIPs, cur.ip)
          /\ Goto("log", AfterBlock(ok))
    /\ UNCHANGED <<now, failedAttempts, mu, blacklistFile, cur, ticker, sweep,
                   startErr, logFile>>

\* if err := m.firewall.BanIP(ip); err != nil { log; return }
banIP_Firewall ==
    /\ At("log", "ban_fw")
    /\ \E ok \in BOOLEAN :
          /\ calls' = Append(calls, [op |-> "BanIP", ip |-> cur.ip, ok |-> ok])
          /\ ufw' = UFW_BanIP(ufw, cur.ip, ok)
          /\ logs' = IF ok THEN logs
                     ELSE Append(logs, [level |-> "error",
                                        msg |-> "ban failed", ip |-> cur.ip])
          /\ Goto("log", AfterBlock(ok))
    /\ UNCHANGED <<now, failedAttempts, bannedIPs, mu, blacklistFile, cur,
                   ticker, sweep, startErr, logFile>>

\* The info record and m.telegram.NotifyIPBanned(ip, ipInfo, server,
\* duration, banTime); its result is dropped.
banIP_Notify ==
    /\ At("log", "ban_notify")
    /\ logs' = Append(logs, [level |-> "info", msg |-> "ip banned",
                             ip |-> cur.ip, duration |-> BanDurationHours,
                             expire_time |-> cur.banTime])
    /\ \E ok \in BOOLEAN :
          calls' = Append(calls, [op |-> "NotifyIPBanned", ip |-> cur.ip,
                                  duration |-> BanDurationHours,
                                  expireTime |-> cur.banTime, ok |-> ok])
    /\ Goto("log", "hfl_notify")
    /\ UNCHANGED <<now, failedAttempts, bannedIPs, mu, blacklistFile, cur,
                   ticker, sweep, startErr, ufw, logFile>>

---------------------------------------------------------------------------
(* saveBlacklist, lines 93-109, called by banIP with m.mu held *)

\* saveBlacklist opening the file after the store lock has been given up.
saveBlacklist_Open_Unlocked ==
    /\ At("log", "save_open")
    /\ mu' = [mu EXCEPT !.writer = NoOwner]
    /\ \/ /\ blacklistFile' = <<>>
          /\ Goto("log", "save_rlock")
       \/ /\ UNCHANGED blacklistFile
          /\ Goto("log", "ban_notify")
    /\ UNCHANGED <<now, failedAttempts, bannedIPs, cur, calls, logs,
                   ticker, sweep, startErr, ufw, logFile>>

\* os.OpenFile(..., O_WRONLY|O_CREATE|O_TRUNC): the file is emptied, or the
\* open fails and saveBlacklist returns the error, which banIP drops.
saveBlacklist_Open ==
    /\ At("log", "save_open")
    /\ \/ /\ blacklistFile' = <<>>
          /\ Goto("log", "save_rlock")
       \/ /\ UNCHANGED blacklistFile
          /\ Goto("log", "ban_notify")
    /\ UNCHANGED <<now, failedAttempts, bannedIPs, mu, cur, calls, logs,
                   ticker, sweep, startErr, ufw, logFile>>

\* m.mu.RLock(), then the range loop writing ip + "\n" for every key.
saveBlacklist_RLock ==
    /\ At("log", "save_rlock")
    /\ CanRLock
    /\ mu' = [mu EXCEPT !.readers = @ + 1]
    /\ Goto("log", "save_write")
    /\ UNCHANGED <<now, failedAttempts, bannedIPs, blacklistFile, cur, calls,
                   logs, ticker, sweep, startErr, ufw, logFile>>

\* The orders in which a range over the keys of a map can visit them.
Orders(S) == {q \in [1..Cardinality(S) -> S] : \A i, j \in DOMAIN q : q[i] = q[j] => i = j}

\* What n calls of file.WriteString(ip + "\n") in the order q leave in the file.
RECURSIVE Written(_, _)
Written(q, n) == IF n = 0 THEN <<>> ELSE Written(q, n - 1) \o <<q[n], NL>>

\* for ip := range m.bannedIPs { file.WriteString(ip + "\n") }: all keys are
\* written, or a write fails after n of them and saveBlacklist returns the
\* error at line 103, before m.mu.RUnlock().
saveBlacklist_Write ==
    /\ At("log", "save_write")
    /\ \E q \in Orders(DOMAIN bannedIPs) :
          \/ /\ blacklistFile' = Written(q, Len(q))
             /\ Goto("log", "save_runlock")
          \/ \E n \in 0..(Len(q) - 1) :
                /\ blacklistFile' = Written(q, n)
                /\ Goto("log", "ban_notify")
    /\ UNCHANGED <<now, failedAttempts, bannedIPs, mu, cur, calls, logs,
                   ticker, sweep, startErr, ufw, logFile>>

\* m.mu.RUnlock() and return nil.
saveBlacklist_RUnlock ==
    /\ At("log", "save_runlock")
    /\ mu' = [mu EXCEPT !.readers = @ - 1]
    /\ Goto("log", "ban_notify")
    /\ UNCHANGED <<now, failedAttempts, bannedIPs, blacklistFile, cur, calls,
                   logs, ticker, sweep, startErr, ufw, logFile>>

---------------------------------------------------------------------------
(* handleSuccessfulLogin, lines 205-211: no lock is taken *)

\* handleSuccessfulLogin clearing the address's attempts on a success.
handleSuccessfulLogin_Reset ==
    /\ At("log", "hsl")
    /\ failedAttempts' = MapDelete(failedAttempts, cur.ip)
    /\ logs' = Append(logs, [level |-> "info", msg |-> "login ok",
                             ip |-> cur.ip])
    /\ \E ok \in BOOLEAN :
          calls' = Append(calls, [op |-> "NotifyLoginSuccess", ip |-> cur.ip,
                                  ok |-> ok])
    /\ Goto("log", "hsl_ret")
    /\ UNCHANGED <<now, bannedIPs, mu, blacklistFile, cur, ticker, sweep,
                   startErr, ufw, logFile>>

\* The info record and m.telegram.NotifyLoginSuccess(ip, ipInfo, server).
handleSuccessfulLogin ==
    /\ At("log", "hsl")
    /\ logs' = Append(logs, [level |-> "info", msg |-> "login ok",
                             ip |-> cur.ip])
    /\ \E ok \in BOOLEAN :
          calls' = Append(calls, [op |-> "NotifyLoginSuccess", ip |-> cur.ip,
                                  ok |-> ok])
    /\ Goto("log", "hsl_ret")
    /\ UNCHANGED <<now, failedAttempts, bannedIPs, mu, blacklistFile, cur,
                   ticker, sweep, startErr, ufw, logFile>>

\* The return to the read loop.
handleSuccessfulLogin_Return ==
    /\ At("log", "hsl_ret")
    /\ cur' = NoCall
    /\ calls' = <<>>
    /\ logs' = <<>>
    /\ logFile' = [logFile EXCEPT !.line = NoLine]
    /\ Goto("log", "read")
    /\ UNCHANGED <<now, failedAttempts, bannedIPs, mu, blacklistFile, ticker,
                   sweep, startErr, ufw>>

---------------------------------------------------------------------------
(* cleanupBannedIPs, lines 113-130, the sweeper goroutine *)

\* ticker := time.NewTicker(1 * time.Hour)
cleanupBannedIPs_NewTicker ==
    /\ At("sweeper", "newticker")
    /\ ticker' = [next |-> now + TickerPeriod, pending |-> FALSE]
    /\ Goto("sweeper", "wait")
    /\ UNCHANGED <<now, failedAttempts, bannedIPs, mu, blacklistFile, cur,
                   calls, logs, sweep, startErr, ufw, logFile>>

\* for range ticker.C: a tick is received.
cleanupBannedIPs_Tick ==
    /\ At("sweeper", "wait")
    /\ ticker.pending
    /\ ticker' = [ticker EXCEPT !.pending = FALSE]
    /\ Goto("sweeper", "lock")
    /\ UNCHANGED <<now, failedAttempts, bannedIPs, mu, blacklistFile, cur,
                   calls, logs, sweep, startErr, ufw, logFile>>

\* m.mu.Lock() and the start of the range over m.bannedIPs.  t0, banned0 and
\* attempts0 record the clock and the maps as the tick found them.
cleanupBannedIPs_Lock ==
    /\ At("sweeper", "lock")
    /\ CanLock
    /\ mu' = [mu EXCEPT !.writer = "sweeper"]
    /\ sweep' = [todo |-> DOMAIN bannedIPs, unbans |-> <<>>, t0 |-> now,
                 banned0 |-> bannedIPs, attempts0 |-> failedAttempts]
    /\ Goto("sweeper", "range")
    /\ UNCHANGED <<now, failedAttempts, bannedIPs, blacklistFile, cur, calls,
                   logs, ticker, startErr, ufw, logFile>>

\* The sweeper's test written with Before: unexpired records are swept.
SweepExpired_Before(ip) == now < bannedIPs[ip]

\* if time.Now().After(banTime)
SweepExpired(ip) == now > bannedIPs[ip]

\* The two deletes placed in the else branch: no delete when UnbanIP failed.
DeleteAfterUnban_OnlyOnSuccess(ok) == ok

\* The two deletes follow the if/else on UnbanIP's error: they run whatever
\* UnbanIP returned.
DeleteAfterUnban(ok) == TRUE

\* The range loop without line 125: the count of a removed address is kept.
cleanupBannedIPs_Visit_KeepsAttempts ==
    /\ At("sweeper", "range")
    /\ \E ip \in sweep.todo :
          IF SweepExpired(ip)
          THEN \E ok \in BOOLEAN :
                  /\ sweep' = [sweep EXCEPT !.todo = @ \ {ip},
                                 !.unbans = Append(@, [ip |-> ip, ok |-> ok,
                                                      logged |-> ~ok])]
                  /\ ufw' = UFW_UnbanIP(ufw, ip, ok)
                  /\ bannedIPs' = MapDelete(bannedIPs, ip)
                  /\ UNCHANGED failedAttempts
          ELSE /\ sweep' = [sweep EXCEPT !.todo = @ \ {ip}]
               /\ UNCHANGED <<bannedIPs, failedAttempts, ufw>>
    /\ UNCHANGED <<now, mu, blacklistFile, pc, cur, calls, logs, ticker,
                   startErr, logFile>>

\* One iteration of the range loop: the entry ip, not visited before.  An
\* entry of unbans is one call of UnbanIP; logged says that its error was
\* written to the log (line 120).
cleanupBannedIPs_Visit ==
    /\ At("sweeper", "range")
    /\ \E ip \in sweep.todo :
          IF SweepExpired(ip)
          THEN \E ok \in BOOLEAN :
                  /\ sweep' = [sweep EXCEPT !.todo = @ \ {ip},
                                 !.unbans = Append(@, [ip |-> ip, ok |-> ok,
                                                      logged |-> ~ok])]
                  /\ ufw' = UFW_UnbanIP(ufw, ip, ok)
                  /\ IF DeleteAfterUnban(ok)
                     THEN /\ bannedIPs' = MapDelete(bannedIPs, ip)
                          /\ failedAttempts' = MapDelete(failedAttempts, ip)
                     ELSE UNCHANGED <<bannedIPs, failedAttempts>>
          ELSE /\ sweep' = [sweep EXCEPT !.todo = @ \ {ip}]
               /\ UNCHANGED <<bannedIPs, failedAttempts, ufw>>
    /\ UNCHANGED <<now, mu, blacklistFile, pc, cur, calls, logs, ticker,
                   startErr, logFile>>

\* The range is over: m.mu.Unlock(), and back to the ticker.
cleanupBannedIPs_Unlock ==
    /\ At("sweeper", "range")
    /\ sweep.todo = {}
    /\ mu' = [mu EXCEPT !.writer = NoOwner]
    /\ sweep' = NoSweep
    /\ Goto("sweeper", "wait")
    /\ UNCHANGED <<now, failedAttempts, bannedIPs, blacklistFile, cur, calls,
                   logs, ticker, startErr, ufw, logFile>>

---------------------------------------------------------------------------
(* The geolocation lookup: ipinfo.Client.GetIPInfo and FormatIPInfo *)

\* What one attempt meets: an answer that decodes, an error of
\* httpClient.Get, or a body that does not decode.
Answer == {"ok", "get", "decode"}

\* The answers the service would give to the attempts of one lookup.
Answers == [1..(RetryCount + 1) -> Answer]

\* GetIPInfo with the loop condition i <= retryCount + 1.
RECURSIVE GetIPInfoFrom_OneMore(_, _, _)
GetIPInfoFrom_OneMore(a, i, slept) ==
    IF i > RetryCount + 1
    THEN [err |-> "last", attempts |-> i, slept |-> slept]
    ELSE LET ans == IF i + 1 \in DOMAIN a THEN a[i + 1] ELSE a[Len(a)]
         IN  IF ans = "ok"
             THEN [err |-> "nil", attempts |-> i + 1, slept |-> slept]
             ELSE IF i < RetryCount + 1
                  THEN GetIPInfoFrom_OneMore(a, i + 1, slept + RetryInterval)
                  ELSE [err |-> ans, attempts |-> i + 1, slept |-> slept]

\* The loop of GetIPInfo from iteration i on, after slept seconds of
\* time.Sleep: attempt i + 1 succeeds and the result is returned; or it fails
\* and, if i < retryCount, the loop sleeps retryInterval and goes on, and
\* otherwise returns the error.  attempts counts the calls of httpClient.Get.
RECURSIVE GetIPInfoFrom(_, _, _)
GetIPInfoFrom(a, i, slept) ==
    IF i > RetryCount
    THEN [err |-> "last", attempts |-> i, slept |-> slept]
    ELSE IF a[i + 1] = "ok"
         THEN [err |-> "nil", attempts |-> i + 1, slept |-> slept]
         ELSE IF i < RetryCount
              THEN GetIPInfoFrom(a, i + 1, slept + RetryInterval)
              ELSE [err |-> a[i + 1], attempts |-> i + 1, slept |-> slept]

GetIPInfo(a) == GetIPInfoFrom(a, 0, 0)

\* FormatIPInfo(ip): the text given to the notifier, as the pieces the two
\* format strings put together.
FormatIPInfo(ip, a) ==
    IF GetIPInfo(a).err # "nil"
    THEN <<"IP: ", ip, " (no location)">>
    ELSE <<"IP: ", ip, " location: ", "country region city", " ISP: ", "isp">>

\* Lines 197-199: FormatIPInfo(ip), under m.mu, then NotifyLoginFailed.
handleFailedLogin_FormatIPInfo ==
    /\ At("log", "hfl_notify")
    /\ \E a \in Answers, ok \in BOOLEAN :
          calls' = Append(calls, [op |-> "NotifyLoginFailed", ip |-> cur.ip,
                                  attempts |-> MapGet(failedAttempts, cur.ip),
                                  maxAttempts |-> MaxFailedAttempts,
                                  lookup |-> GetIPInfo(a),
                                  ipInfo |-> FormatIPInfo(cur.ip, a),
                                  ok |-> ok])
    /\ Goto("log", "hfl_unlock")
    /\ UNCHANGED <<now, failedAttempts, bannedIPs, mu, blacklistFile, cur,
                   logs, ticker, sweep, startErr, ufw, logFile>>

\* Lines 227-235: the info record, FormatIPInfo(ip), then NotifyIPBanned.
banIP_FormatIPInfo ==
    /\ At("log", "ban_notify")
    /\ logs' = Append(logs, [level |-> "info", msg |-> "ip banned",
                             ip |-> cur.ip, duration |-> BanDurationHours,
                             expire_time |-> cur.banTime])
    /\ \E a \in Answers, ok \in BOOLEAN :
          calls' = Append(calls, [op |-> "NotifyIPBanned", ip |-> cur.ip,
                                  duration |-> BanDurationHours,
                                  expireTime |-> cur.banTime,
                                  lookup |-> GetIPInfo(a),
                                  ipInfo |-> FormatIPInfo(cur.ip, a),
                                  ok |-> ok])
    /\ Goto("log", "hfl_notify")
    /\ UNCHANGED <<now, failedAttempts, bannedIPs, mu, blacklistFile, cur,
                   ticker, sweep, startErr, ufw, logFile>>

\* Lines 206-210: the info record, FormatIPInfo(ip), then NotifyLoginSuccess.
handleSuccessfulLogin_FormatIPInfo ==
    /\ At("log", "hsl")
    /\ logs' = Append(logs, [level |-> "info", msg |-> "login ok",
                             ip |-> cur.ip])
    /\ \E a \in Answers, ok \in BOOLEAN :
          calls' = Append(calls, [op |-> "NotifyLoginSuccess", ip |-> cur.ip,
                                  lookup |-> GetIPInfo(a),
                                  ipInfo |-> FormatIPInfo(cur.ip, a),
                                  ok |-> ok])
    /\ Goto("log", "hsl_ret")
    /\ UNCHANGED <<now, failedAttempts, bannedIPs, mu, blacklistFile, cur,
                   ticker, sweep, startErr, ufw, logFile>>

---------------------------------------------------------------------------
(* The clock *)

\* An hour passes.  The ticker, once created, fires every TickerPeriod into
\* its channel of capacity one.
Tick ==
    /\ Running
    /\ now < MaxTime
    /\ now' = now + 1
    /\ ticker' = IF pc.sweeper \notin {"none", "newticker"} /\ now' >= ticker.next
                 THEN [next |-> ticker.next + TickerPeriod, pending |-> TRUE]
                 ELSE ticker
    /\ UNCHANGED <<failedAttempts, bannedIPs, mu, blacklistFile, pc, cur,
                   calls, logs, sweep, startErr, ufw, logFile>>

---------------------------------------------------------------------------
(* The specification *)

\* The steps of the log goroutine.  saveBlacklist is called by banIP only,
\* inside handleFailedLogin's m.mu.Lock(): its RLock step is never enabled
\* where the goroutine reaches it (LogBlockedForever below), so the steps of
\* saveBlacklist after its open are no steps of the program (SpecSave runs them).
LogStep ==
    \/ Start_loadBlacklist
    \/ Start_go
    \/ monitorSSHLogs_Open
    \/ monitorSSHLogs_ReadLine
    \/ monitorSSHLogs_ReadEOF
    \/ monitorSSHLogs_Wake
    \/ monitorSSHLogs_ReadError
    \/ handleFailedLogin_Lock
    \/ handleFailedLogin_Check
    \/ handleFailedLogin_Count
    \/ handleFailedLogin_Notify
    \/ handleFailedLogin_Unlock
    \/ banIP_Set
    \/ banIP_Firewall
    \/ banIP_Notify
    \/ saveBlacklist_Open
    \/ handleSuccessfulLogin
    \/ handleSuccessfulLogin_Return

SweeperStep ==
    \/ cleanupBannedIPs_NewTicker
    \/ cleanupBannedIPs_Tick
    \/ cleanupBannedIPs_Lock
    \/ cleanupBannedIPs_Visit
    \/ cleanupBannedIPs_Unlock

Next == LogStep \/ SweeperStep \/ Tick

Spec == Init /\ [][Next]_vars

---------------------------------------------------------------------------
(* The tailer on a log file that has data at startup and that sshd appends
   to, within the first hour of the run: the clock stands at 0, and the
   sweeper, once started, waits for its first tick *)

\* The lines of the sshd log at startup: a failed and an accepted login.
OldLines ==
    {line \in Lines : line.from = "10.0.0.1" /\ line.failed # line.accepted}

\* What the sshd log holds at startup: nothing, or one line, or one line
\* that sshd has not ended yet.
OldLogs ==
    {<<>>} \cup {<<TextPiece(line), NLPiece>> : line \in OldLines}
           \cup {<<TextPiece(line)>> : line \in OldLines}

\* The blacklist file at startup: empty, or one address.
TailFiles == {<<>>, <<"10.0.0.2", NL>>}

InitTail ==
    /\ InitMonitor
    /\ blacklistFile \in TailFiles
    /\ \E old \in OldLogs : logFile = [NoLog EXCEPT !.data = old]

TailStep ==
    \/ Start_loadBlacklist
    \/ Start_go
    \/ monitorSSHLogs_Open
    \/ monitorSSHLogs_ReadString
    \/ monitorSSHLogs_ReadStringEOF
    \/ monitorSSHLogs_Wake
    \/ monitorSSHLogs_ReadError
    \/ handleFailedLogin_Lock
    \/ handleFailedLogin_Check
    \/ handleFailedLogin_Count
    \/ handleFailedLogin_Notify
    \/ handleFailedLogin_Unlock
    \/ banIP_Set
    \/ banIP_Firewall
    \/ banIP_Notify
    \/ saveBlacklist_Open
    \/ handleSuccessfulLogin
    \/ handleSuccessfulLogin_Return

NextTail == TailStep \/ cleanupBannedIPs_NewTicker \/ AppendLog

SpecTail == InitTail /\ [][NextTail]_vars

---------------------------------------------------------------------------
(* The handlers with their geolocation lookups, within the first hour of the
   run: the clock stands at 0 *)

InitLookup == Init /\ blacklistFile \in TailFiles

LookupStep ==
    \/ Start_loadBlacklist
    \/ Start_go
    \/ monitorSSHLogs_Open
    \/ monitorSSHLogs_ReadLine
    \/ monitorSSHLogs_ReadEOF
    \/ monitorSSHLogs_Wake
    \/ monitorSSHLogs_ReadError
    \/ handleFailedLogin_Lock
    \/ handleFailedLogin_Check
    \/ handleFailedLogin_Count
    \/ handleFailedLogin_FormatIPInfo
    \/ handleFailedLogin_Unlock
    \/ banIP_Set
    \/ banIP_Firewall
    \/ banIP_FormatIPInfo
    \/ saveBlacklist_Open
    \/ handleSuccessfulLogin_FormatIPInfo
    \/ handleSuccessfulLogin_Return

NextLookup == LookupStep \/ cleanupBannedIPs_NewTicker

SpecLookup == InitLookup /\ [][NextLookup]_vars

---------------------------------------------------------------------------
(* saveBlacklist by itself: one call made while nobody holds m.mu, at the
   side of a sweeper that has received a tick.  No call of the program is
   made like this (banIP calls with m.mu held, and then the m.mu.RLock() of
   line 100 never returns); it is the call under which the lines 100-107
   run at all *)

\* The Ban Record sets the call may find: records made before, expired or not.
SaveRecords ==
    UNION {[S -> {BanDurationHours, MaxTime + BanDurationHours}] : S \in SUBSET IPs}

InitSave ==
    /\ now = MaxTime
    /\ failedAttempts = EmptyMap
    /\ bannedIPs \in SaveRecords
    /\ mu = [writer |-> NoOwner, readers |-> 0]
    /\ blacklistFile \in InitFiles
    /\ pc = [log |-> "save_open", sweeper |-> "lock"]
    /\ cur = NoCall
    /\ calls = <<>>
    /\ logs = <<>>
    /\ ticker = [next |-> MaxTime + TickerPeriod, pending |-> FALSE]
    /\ sweep = NoSweep
    /\ startErr = "none"
    /\ ufw = <<>>
    /\ logFile = NoLog

NextSave ==
    \/ saveBlacklist_Open
    \/ saveBlacklist_RLock
    \/ saveBlacklist_Write
    \/ saveBlacklist_RUnlock
    \/ cleanupBannedIPs_Lock
    \/ cleanupBannedIPs_Visit
    \/ cleanupBannedIPs_Unlock

SpecSave == InitSave /\ [][NextSave]_vars

---------------------------------------------------------------------------
(* Properties *)

\* A step of the log goroutine that leaves position l.
LogLeaves(l) == pc.log = l /\ pc'.log # l

\* isIPBanned(ip) as a predicate of the state: a record that has not expired.
Banned(ip) == ip \in DOMAIN bannedIPs /\ now < bannedIPs[ip]

\* The calls of one kind made by the handler in progress.
CallsOf(op) == SelectSeq(calls, LAMBDA c : c.op = op)

\* C1: the failed login that brings an unbanned address to the threshold
\* enters banIP, which creates the Ban Record with expiry now + ban duration;
\* and a Ban Record is kept, with the same expiry, by every step (of the log
\* goroutine, of the sweeper, of the clock) that ends before its expiry, so
\* that isIPBanned stays true until then.
C1_BanCreatedAndKept ==
    [][ /\ (LogLeaves("hfl_count") /\ ReachedThreshold(MapGet(failedAttempts', cur.ip)))
            => pc'.log = "ban_set"
        /\ LogLeaves("ban_set")
            => /\ cur.ip \in DOMAIN bannedIPs'
               /\ bannedIPs'[cur.ip] = now + BanDurationHours
               /\ now' < bannedIPs'[cur.ip]
        /\ \A ip \in DOMAIN bannedIPs :
              now' < bannedIPs[ip]
                 => ip \in DOMAIN bannedIPs' /\ bannedIPs'[ip] = bannedIPs[ip]
      ]_vars

\* A ban created by a failed login (the count is at the threshold) that a
\* complete sweep, begun after an hour of the ban had passed, has left in place.
C1_Witness ==
    /\ pc.sweeper = "range"
    /\ sweep.todo = {}
    /\ \E ip \in DOMAIN sweep.banned0 :
          /\ ReachedThreshold(MapGet(failedAttempts, ip))
          /\ sweep.t0 > sweep.banned0[ip] - BanDurationHours
          /\ Banned(ip)

\* C2: a failed login from an address with an unexpired Ban Record returns
\* from handleFailedLogin without a change of failedAttempts, bannedIPs or the
\* blacklist file and without any collaborator call.
C2_BannedFailureRejected ==
    [][ /\ (LogLeaves("hfl_check") /\ Banned(cur.ip))
            => /\ pc'.log = "hfl_unlock"
               /\ UNCHANGED <<failedAttempts, bannedIPs, blacklistFile>>
               /\ calls' = <<>>
        /\ (LogLeaves("hfl_unlock") /\ calls = <<>>)
            => /\ pc'.log = "read"
               /\ UNCHANGED <<failedAttempts, bannedIPs, blacklistFile>>
      ]_vars

\* A rejected failure of an address whose count stands at the threshold.
C2_Witness ==
    /\ pc.log = "hfl_unlock"
    /\ calls = <<>>
    /\ Banned(cur.ip)
    /\ MapGet(failedAttempts, cur.ip) = MaxFailedAttempts

\* C3: no goroutine waits for the store lock forever.  The log goroutine
\* inside saveBlacklist, at m.mu.RLock(), while it holds m.mu.Lock() itself,
\* does: only its own deferred Unlock would let it pass.
LogBlockedForever ==
    /\ At("log", "save_rlock")
    /\ mu.writer = "log"
    /\ ~ENABLED saveBlacklist_RLock

C3_NoTaskBlockedForever == ~LogBlockedForever

\* C4: isIPBanned on an address whose Ban Record has reached its expiry
\* returns false and deletes the Ban Record and the Attempt Record of that
\* address (and of no other); on an address without a Ban Record it returns
\* false and changes neither map.
C4_LazyExpiry ==
    [][ LogLeaves("hfl_check") =>
          /\ (cur.ip \in DOMAIN bannedIPs /\ now >= bannedIPs[cur.ip])
                => /\ pc'.log = "hfl_count"
                   /\ bannedIPs' = MapDelete(bannedIPs, cur.ip)
                   /\ failedAttempts' = MapDelete(failedAttempts, cur.ip)
                   /\ cur.ip \notin DOMAIN bannedIPs'
                   /\ cur.ip \notin DOMAIN failedAttempts'
          /\ cur.ip \notin DOMAIN bannedIPs
                => /\ pc'.log = "hfl_count"
                   /\ UNCHANGED <<bannedIPs, failedAttempts>>
      ]_vars

\* isIPBanned has just deleted an expired record and the attempts, as many
\* as the threshold, counted for it, while the sweeper is not sweeping.
C4_Witness ==
    /\ pc.log = "hfl_count"
    /\ cur.expired
    /\ cur.dropped = MaxFailedAttempts
    /\ cur.ip \notin DOMAIN bannedIPs
    /\ cur.ip \notin DOMAIN failedAttempts
    /\ pc.sweeper \in {"wait", "lock"}

\* The handler in progress has counted its failure (it was not rejected).
Counted == \E i \in 1..Len(logs) : logs[i].msg = "login failed"

\* The addresses a fresh Monitor holds after loadBlacklist of the file.
LoadedKeys == DOMAIN loadBlacklist(EmptyMap, blacklistFile, now)

\* C5: when banIP has returned to handleFailedLogin, all four steps of the
\* ban have been done: the Ban Record exists, the blacklist file lists the
\* banned addresses, the block call was made, and a ban notification with the
\* duration and the computed expiry was sent, also when the block call failed.
C5_BanDoesAllFourSteps ==
    (pc.log \in {"hfl_notify", "hfl_unlock"} /\ cur.banTime # 0)
       => /\ cur.ip \in DOMAIN bannedIPs
          /\ bannedIPs[cur.ip] = cur.banTime
          /\ LoadedKeys = DOMAIN bannedIPs
          /\ Len(CallsOf("BanIP")) = 1
          /\ \E i \in 1..Len(calls) :
                /\ calls[i].op = "NotifyIPBanned"
                /\ calls[i].ip = cur.ip
                /\ calls[i].duration = BanDurationHours
                /\ calls[i].expireTime = cur.banTime

\* C6: when the handler of a counted failure has done all it will ever do
\* (it is about to return, or waits forever), it has sent exactly one failure
\* notification, with the address's count and the threshold; the count is the
\* threshold when the failure triggered a ban.
C6_CountedFailureNotified ==
    (Counted /\ (pc.log = "hfl_unlock" \/ LogBlockedForever))
       => /\ Len(CallsOf("NotifyLoginFailed")) = 1
          /\ LET c == CallsOf("NotifyLoginFailed")[1]
             IN  /\ c.ip = cur.ip
                 /\ c.attempts = MapGet(failedAttempts, cur.ip)
                 /\ c.maxAttempts = MaxFailedAttempts
                 /\ cur.banTime # 0 => c.attempts = MaxFailedAttempts

\* C7: handleSuccessfulLogin changes neither map, nor the blacklist file, nor
\* the lock, and makes one call, the success notification; and the count of a
\* failure is one more than the count it found, so that a success between two
\* failures does not restart the count.
C7_SuccessChangesNothing ==
    [][ /\ LogLeaves("hsl")
            => /\ pc'.log = "hsl_ret"
               /\ UNCHANGED <<failedAttempts, bannedIPs, blacklistFile, mu>>
               /\ Len(calls') = 1
               /\ calls'[1].op = "NotifyLoginSuccess"
               /\ calls'[1].ip = cur.ip
        /\ LogLeaves("hsl_ret")
            => /\ pc'.log = "read"
               /\ UNCHANGED <<failedAttempts, bannedIPs, blacklistFile, mu>>
        /\ LogLeaves("hfl_count")
            => MapGet(failedAttempts', cur.ip) = MapGet(failedAttempts, cur.ip) + 1
      ]_vars

\* A success handled for an unbanned address one failure short of the
\* threshold: its count is still there.
C7_Witness ==
    /\ pc.log = "hsl_ret"
    /\ Len(calls) = 1
    /\ cur.ip \notin DOMAIN bannedIPs
    /\ MapGet(failedAttempts, cur.ip) = MaxFailedAttempts - 1

\* C8: a step lowers the count of an address only if it removes a Ban Record
\* of that address whose expiry has been reached.
C8_CountNeverDecreasesUnbanned ==
    [][ \A ip \in IPs :
           MapGet(failedAttempts', ip) < MapGet(failedAttempts, ip)
              => /\ ip \in DOMAIN bannedIPs
                 /\ now >= bannedIPs[ip]
                 /\ ip \notin DOMAIN bannedIPs'
      ]_vars

\* A sweep has removed the attempts of an address while the other address,
\* which has no Ban Record, keeps its count.
C8_Witness ==
    /\ pc.sweeper = "range"
    /\ \E ip \in IPs :
          /\ MapGet(sweep.attempts0, ip) > 0
          /\ ip \notin DOMAIN failedAttempts
    /\ \E ip \in IPs :
          /\ ip \notin DOMAIN sweep.banned0
          /\ MapGet(failedAttempts, ip) > 0

\* The addresses UnbanIP was called for in the sweep in progress.
Unbanned == {sweep.unbans[i].ip : i \in 1..Len(sweep.unbans)}

\* The addresses whose Ban Record the sweep in progress has removed.
Swept == (DOMAIN sweep.banned0) \ (DOMAIN bannedIPs)

\* C9: when a sweep has gone through the map, UnbanIP was called once for
\* each address it removed and for no other, whatever UnbanIP returned; the
\* removed addresses are expired and have lost both records; every record
\* already expired when the sweep began is removed; and every other address
\* has its Ban Record and its count as the sweep found them.
C9_SweepRemovesExactlyExpired ==
    (pc.sweeper = "range" /\ sweep.todo = {})
       => /\ Unbanned = Swept
          /\ Len(sweep.unbans) = Cardinality(Swept)
          /\ \A ip \in Swept :
                /\ now > sweep.banned0[ip]
                /\ ip \notin DOMAIN failedAttempts
          /\ \A ip \in DOMAIN sweep.banned0 :
                sweep.t0 > sweep.banned0[ip] => ip \in Swept
          /\ \A ip \in IPs \ Swept :
                /\ ip \in DOMAIN sweep.banned0
                      => ip \in DOMAIN bannedIPs /\ bannedIPs[ip] = sweep.banned0[ip]
                /\ ip \notin DOMAIN sweep.banned0 => ip \notin DOMAIN bannedIPs
                /\ MapGet(failedAttempts, ip) = MapGet(sweep.attempts0, ip)

\* A sweep that removed two expired addresses, the first of which UnbanIP
\* failed for.
C9_Witness ==
    /\ pc.sweeper = "range"
    /\ sweep.todo = {}
    /\ Len(sweep.unbans) = 2
    /\ ~sweep.unbans[1].ok
    /\ Swept = IPs

\* C10: once saveBlacklist has been called and has done all it will ever do,
\* loading the file into a fresh Monitor gives a Ban Record for exactly the
\* addresses of the Ban Record set, each expiring a ban duration after the load.
C10_SavedBlacklistLoadsBack ==
    LogBlockedForever
       => /\ LoadedKeys = DOMAIN bannedIPs
          /\ \A ip \in LoadedKeys :
                loadBlacklist(EmptyMap, blacklistFile, now)[ip] = now + BanDurationHours


---------------------------------------------------------------------------
(* C11 *)

\* No handler and no sweep is running: the tailer waits for a line and the
\* sweeper for its ticker.
Quiescent ==
    /\ Running
    /\ pc.log \in {"read", "sleep"}
    /\ pc.sweeper = "wait"

\* C11: in every quiescent state after startup the addresses listed in the
\* blacklist file are exactly the keys of bannedIPs; an address removed by
\* the sweeper or by isIPBanned is no longer listed.
C11_FileMirrorsBans == Quiescent => LoadedKeys = DOMAIN bannedIPs


---------------------------------------------------------------------------
(* C12 *)

\* The step of banIP in which m.firewall.BanIP returned an error.
BlockFails == LogLeaves("ban_fw") /\ ~calls'[Len(calls')].ok

\* A Ban Record made by banIP and left without its deny rule: the address
\* reached the threshold, and ufw holds no rule for it.
BlockFailedBan(ip) ==
    /\ ip \in DOMAIN bannedIPs
    /\ MapGet(failedAttempts, ip) >= MaxFailedAttempts
    /\ ip \notin DOMAIN ufw

\* C12: when BanIP fails inside banIP, the Ban Record just created is kept
\* with its expiry, the failure is logged, and handleFailedLogin goes on to
\* its notification and return without touching the record; a later failed
\* login of that address before the expiry is rejected without counting.
C12_BlockFailureKeepsBan ==
    [][ /\ BlockFails
            => /\ cur.ip \in DOMAIN bannedIPs'
               /\ bannedIPs'[cur.ip] = cur.banTime
               /\ logs' = Append(logs, [level |-> "error", msg |-> "ban failed",
                                        ip |-> cur.ip])
               /\ pc'.log = "hfl_notify"
        /\ (pc.log \in {"hfl_notify", "hfl_unlock"} /\ pc'.log # pc.log)
            => UNCHANGED bannedIPs
        /\ (LogLeaves("hfl_check") /\ BlockFailedBan(cur.ip) /\ Banned(cur.ip))
            => /\ pc'.log = "hfl_unlock"
               /\ UNCHANGED <<failedAttempts, bannedIPs>>
               /\ calls' = <<>>
      ]_vars

\* A failed login rejected because of a Ban Record whose BanIP had failed.
C12_Witness ==
    /\ pc.log = "hfl_unlock"
    /\ calls = <<>>
    /\ BlockFailedBan(cur.ip)
    /\ Banned(cur.ip)
    /\ Len(logs) = 1 /\ logs[1].msg = "banned ip tried to log in"


---------------------------------------------------------------------------
(* C13 *)

\* The calls to the firewall among the calls of the handler in progress.
EnforcementCalls(q) == SelectSeq(q, LAMBDA c : c.op \in {"BanIP", "UnbanIP"})

\* C13: BanIP is called only by banIP, for the address whose failure has just
\* been counted up to the threshold (so not at the blacklist load and not for
\* an address found banned); UnbanIP is called only by the sweeper inside its
\* sweep; isIPBanned deleting an expired record makes no firewall call.
C13_EnforcementOnlyInBanAndSweep ==
    [][ /\ (calls' # <<>> /\ EnforcementCalls(calls') # EnforcementCalls(calls))
            => /\ LogLeaves("ban_fw")
               /\ Counted
               /\ ReachedThreshold(MapGet(failedAttempts, cur.ip))
               /\ \E ok \in BOOLEAN :
                     calls' = Append(calls, [op |-> "BanIP", ip |-> cur.ip,
                                             ok |-> ok])
        /\ ufw' # ufw
            => \/ /\ LogLeaves("ban_fw") /\ ufw' = MapPut(ufw, cur.ip, "deny")
                  /\ EnforcementCalls(calls') # EnforcementCalls(calls)
               \/ /\ pc.sweeper = "range" /\ mu.writer = "sweeper"
                  /\ Len(sweep'.unbans) = Len(sweep.unbans) + 1
                  /\ LET u == sweep'.unbans[Len(sweep'.unbans)]
                     IN  ufw' = UFW_UnbanIP(ufw, u.ip, u.ok)
        /\ sweep'.unbans # sweep.unbans
            => \/ pc.sweeper = "range" /\ mu.writer = "sweeper"
               \/ pc.sweeper = "lock" /\ sweep'.unbans = <<>>
        /\ LogLeaves("hfl_check") => UNCHANGED <<calls, ufw, sweep>>
        /\ LogLeaves("start") => UNCHANGED <<calls, ufw, sweep>>
      ]_vars

\* isIPBanned has deleted the expired record of an address that still has its
\* deny rule, and no firewall call was made.
C13_Witness ==
    /\ pc.log = "hfl_count"
    /\ cur.expired
    /\ cur.ip \in DOMAIN ufw
    /\ calls = <<>>


---------------------------------------------------------------------------
(* C14 *)

\* A sweep has gone through the whole map and is about to unlock.
SweepDone == pc.sweeper = "range" /\ sweep.todo = {}

\* The deny rules put by banIP for which UnbanIP has not been called since.
Blocked == {ip \in DOMAIN ufw : ufw[ip] = "deny"}

\* C14: when a sweep ends, every address whose deny rule was put by banIP and
\* whose ban expired before the sweep began (its record says so, or isIPBanned
\* has already deleted the record) has had UnbanIP called, in this sweep or
\* an earlier one: a deny rule for which UnbanIP was never called belongs to
\* a record the sweep has found unexpired and kept.
C14_SweepLiftsExpiredBlocks ==
    SweepDone
       => \A ip \in Blocked : /\ ip \in DOMAIN bannedIPs
                              /\ ~(sweep.t0 > bannedIPs[ip])


---------------------------------------------------------------------------
(* C15 *)

\* The step is a collaborator call that returned an error.
CallFails == Len(calls') = Len(calls) + 1 /\ ~calls'[Len(calls')].ok

\* C15: monitorSSHLogs returns only from its os.Open, when the log file
\* cannot be opened, or from its ReadString, on an error other than io.EOF;
\* on io.EOF it sleeps and reads again; a failing firewall, blacklist file
\* or notification call in a handler leaves it running, and every handler
\* returns to the read loop.
C15_TailerExitsOnlyOnFatal ==
    [][ /\ (pc.log \notin {"start", "exited"} /\ pc'.log = "exited")
            => \/ pc.log = "open" /\ startErr' = "monitorSSHLogs: open"
               \/ pc.log = "read" /\ startErr' = "monitorSSHLogs: read"
        /\ (LogLeaves("read") /\ pc'.log = "sleep") => startErr' = "none"
        /\ LogLeaves("sleep") => pc'.log = "read" /\ startErr' = "none"
        /\ CallFails => pc'.log # "exited" /\ startErr' = "none"
        /\ (LogLeaves("save_open") /\ pc'.log = "ban_notify")
            => startErr' = "none"
        /\ (LogLeaves("hfl_unlock") \/ LogLeaves("hsl_ret"))
            => pc'.log = "read" /\ startErr' = "none"
      ]_vars

\* A failed login handled to its end with every collaborator failing: BanIP
\* and the notification returned errors, and the handler is about to return
\* to the read loop.
C15_Witness ==
    /\ Running
    /\ pc.log = "hfl_unlock"
    /\ Len(CallsOf("BanIP")) = 1
    /\ Len(CallsOf("NotifyLoginFailed")) = 1
    /\ \A i \in 1..Len(calls) : ~calls[i].ok


---------------------------------------------------------------------------
(* C17 *)

\* The log goroutine is between the Lock and the deferred Unlock of
\* handleFailedLogin: the part that reads and writes the two maps.
LogInStore ==
    pc.log \in {"hfl_check", "hfl_count", "ban_set", "ban_fw", "save_open",
                "save_rlock", "save_write", "save_runlock", "ban_notify",
                "hfl_notify", "hfl_unlock"}

\* The sweeper is between its Lock and its Unlock.
SweeperInStore == pc.sweeper = "range"

\* C17: the sweeper and the failed-login handler are never inside their
\* sections on the maps together, and each is there as the owner of the
\* exclusive lock; once the sweeper has been started, every step that changes
\* bannedIPs or failedAttempts is taken by the owner of the exclusive lock.
C17_StoreAccessExclusive ==
    [][ /\ ~(LogInStore /\ SweeperInStore)
        /\ ~(LogInStore' /\ SweeperInStore')
        /\ LogInStore' => mu'.writer = "log"
        /\ SweeperInStore' => mu'.writer = "sweeper"
        /\ (pc.sweeper # "none" /\ <<bannedIPs, failedAttempts>>' #
                                    <<bannedIPs, failedAttempts>>)
            => \/ pc'.log # pc.log /\ LogInStore /\ mu.writer = "log"
               \/ sweep' # sweep /\ SweeperInStore /\ mu.writer = "sweeper"
      ]_vars

\* The sweeper waits at its Lock while the handler, holding the lock, is
\* about to count a failure.
C17_Witness ==
    /\ pc.sweeper = "lock"
    /\ pc.log = "hfl_count"
    /\ mu.writer = "log"
    /\ bannedIPs # EmptyMap


---------------------------------------------------------------------------
(* C19 *)

\* C19: the sweeper expires a record when isIPBanned does, at now >= expiry:
\* when a sweep ends, every record whose expiry was not after the time the
\* sweep began, equality included, is gone with its count.
C19_SweepExpiresAtEquality ==
    SweepDone
       => \A ip \in DOMAIN sweep.banned0 :
             sweep.t0 >= sweep.banned0[ip]
                => ip \notin DOMAIN bannedIPs /\ ip \notin DOMAIN failedAttempts

---------------------------------------------------------------------------
(* C20 *)

\* banIP has been called for this failure and has done all it will ever do:
\* it has returned to handleFailedLogin, or it is blocked for ever.
BanTransitionOver ==
    \/ pc.log \in {"hfl_notify", "hfl_unlock"} /\ cur.banTime # 0
    \/ LogBlockedForever

\* C20: after every ban transition, the one whose BanIP failed included, the
\* blacklist file has been rewritten in full: it holds one line for each key
\* of bannedIPs and nothing else, never less.
C20_FileRewrittenAfterBan ==
    BanTransitionOver
       => \E q \in Orders(DOMAIN bannedIPs) : blacklistFile = Written(q, Len(q))


---------------------------------------------------------------------------
(* C16 *)

\* The data of the log that the tailer has not read.
Unread == SubSeq(logFile.data, logFile.pos + 1, Len(logFile.data))

\* The step is a ReadString of the tailer that took data from the file.
ReadsData == pc.log = "read" /\ Len(Unread') < Len(Unread)

\* C16: opening the log puts the offset at the end of the data the file
\* holds at that moment and changes nothing in the store; every ReadString
\* after that takes data beyond that point only, so a line that was in the
\* file when tailing began is never handed to a handler.
C16_OldLinesNeverRead ==
    [][ /\ (LogLeaves("open") /\ pc'.log = "read")
            => /\ logFile'.data = logFile.data
               /\ logFile'.pos = Len(logFile.data)
               /\ logFile'.size0 = Len(logFile.data)
               /\ UNCHANGED <<failedAttempts, bannedIPs, blacklistFile, calls,
                              cur, ufw>>
        /\ ReadsData
            => /\ logFile.pos >= logFile.size0
               /\ SubSeq(logFile'.data, 1, logFile.size0)
                     = SubSeq(logFile.data, 1, logFile.size0)
      ]_vars

\* The log held a failed login of 10.0.0.1 when tailing began; sshd has then
\* appended another one, and that one alone has been counted.
C16_Witness ==
    /\ logFile.size0 = 2
    /\ logFile.data[1].failed /\ logFile.data[1].from = "10.0.0.1"
    /\ logFile.data[2].nl
    /\ pc.log = "hfl_notify"
    /\ cur.ip = "10.0.0.1"
    /\ failedAttempts = MapPut(EmptyMap, "10.0.0.1", 1)

---------------------------------------------------------------------------
(* C18 *)

\* The line that the next ReadString returns: its text pieces.
NextText == ReadString(logFile.data, logFile.pos).text

HasFailed == \E i \in 1..Len(NextText) : NextText[i].failed

HasAccepted == \E i \in 1..Len(NextText) : NextText[i].accepted

\* The addresses of the line, and the leftmost of them.
Addrs == {i \in 1..Len(NextText) : NextText[i].from # NoIP}

Addr == NextText[CHOOSE i \in Addrs : \A j \in Addrs : i <= j].from

\* C18: a line read from the log gives a failed login of its first address
\* exactly when it has the failed marker and an address, a successful login
\* of that address exactly when it has the accepted marker, not the failed
\* one, and an address, and no event otherwise; with no event nothing but the
\* offset changes; what earlier lines were plays no part.
C18_ExtractorMapsLine ==
    [][ (ReadsData /\ ReadString(logFile.data, logFile.pos).err = "nil")
           => /\ pc'.log = "hfl_lock" <=> (HasFailed /\ Addrs # {})
              /\ pc'.log = "hsl" <=> (HasAccepted /\ ~HasFailed /\ Addrs # {})
              /\ pc'.log \in {"hfl_lock", "hsl"} => cur'.ip = Addr
              /\ pc'.log \notin {"hfl_lock", "hsl"}
                    => /\ pc'.log = "read"
                       /\ UNCHANGED <<now, failedAttempts, bannedIPs, mu,
                                      blacklistFile, cur, calls, logs, ticker,
                                      sweep, startErr, ufw>>
                       /\ logFile'.line = NoLine
      ]_vars

\* A line with both markers and an address has been read, and
\* handleFailedLogin is called for the address.
C18_Witness ==
    /\ pc.log = "hfl_lock"
    /\ logFile.line.failed /\ logFile.line.accepted
    /\ cur.ip = logFile.line.from
    /\ cur.ip # NoIP


---------------------------------------------------------------------------
(* C21 *)

\* C21: the tailer takes data from the log only as whole newline-terminated
\* lines, each handed to lines 157-169 once and in file order: every read
\* that moves the offset stops behind a newline, so the first part of a line
\* that sshd has not ended yet stays in the file until the rest is there.
C21_LinesDeliveredWhole ==
    [][ ReadsData
           => /\ ReadString(logFile.data, logFile.pos).err = "nil"
              /\ Unread' = SubSeq(Unread, Len(NextText) + 2, Len(Unread))
      ]_vars


---------------------------------------------------------------------------
(* C22 *)

\* C22: a Ban Record whose expiry has passed is eventually removed when both
\* goroutines are scheduled fairly.  For that, no state with such a record
\* may be one in which the store lock is held for ever, since the sweeper and
\* isIPBanned both remove a record under that lock only.
C22_ExpiredRecordRemovable ==
    (\E ip \in DOMAIN bannedIPs : now > bannedIPs[ip]) => ~LogBlockedForever


---------------------------------------------------------------------------
(* C23 *)

\* C23: an address whose expired ban has been removed starts anew.  The
\* sweep and isIPBanned remove the count with the record; the failure that
\* finds no count is counted as the first; and banIP is entered only by the
\* failure that brings the count to the threshold.
C23_CleanHistoryAfterExpiry ==
    [][ /\ \A ip \in IPs :
              (ip \in DOMAIN bannedIPs /\ ip \notin DOMAIN bannedIPs')
                 => ip \notin DOMAIN failedAttempts'
        /\ (LogLeaves("hfl_check") /\ cur.ip \in DOMAIN bannedIPs
               /\ now >= bannedIPs[cur.ip])
            => pc'.log = "hfl_count"
        /\ (LogLeaves("hfl_count") /\ cur.ip \notin DOMAIN failedAttempts)
            => /\ failedAttempts'[cur.ip] = 1
               /\ pc'.log = "ban_set" <=> MaxFailedAttempts = 1
        /\ (LogLeaves("hfl_count") /\ pc'.log = "ban_set")
            => failedAttempts'[cur.ip] = MaxFailedAttempts
      ]_vars

\* An address banned by banIP and removed by a sweep after its expiry (the
\* deletion of its deny rule failed) has failed again: its count is 1 and it
\* is not banned.
C23_Witness ==
    /\ pc.log = "hfl_notify"
    /\ cur.ip \in DOMAIN ufw
    /\ ufw[cur.ip] = "delete failed"
    /\ ~cur.expired
    /\ cur.ip \notin DOMAIN bannedIPs
    /\ MapGet(failedAttempts, cur.ip) = 1


---------------------------------------------------------------------------
(* C24 *)

\* The log goroutine is inside saveBlacklist.
InSave == pc.log \in {"save_open", "save_rlock", "save_write", "save_runlock"}

\* C24: the whole of saveBlacklist, its os.OpenFile with O_TRUNC included,
\* runs while the store lock is held (by handleFailedLogin, its only caller
\* through banIP): no step taken while a rewrite is in progress changes the
\* set of Ban Records, and the sweeper is not inside its locked section.
C24_RewriteUnderStoreLock ==
    [][ InSave => /\ mu.writer = "log"
                  /\ pc.sweeper \notin {"range", "unlock"}
                  /\ bannedIPs' = bannedIPs
      ]_vars

\* The file has been truncated, a record has expired, and the sweeper has
\* ticked and waits for the lock.
C24_Witness ==
    /\ pc.log = "save_rlock"
    /\ blacklistFile = <<>>
    /\ pc.sweeper = "lock"
    /\ \E ip \in DOMAIN bannedIPs : SweepExpired(ip)


---------------------------------------------------------------------------
(* C25 *)

\* The records written to the log by the step, in the handler in progress.
NewLogs == IF Len(logs') > Len(logs)
           THEN {logs'[i] : i \in (Len(logs) + 1)..Len(logs')}
           ELSE {}

\* C25: every failure that the program survives leaves an error record
\* naming the address: a failed call of the firewall or of the notifier made
\* by a handler, a saveBlacklist that returns an error to banIP, and a failed
\* UnbanIP of the sweeper.
C25_FailuresLogged ==
    [][ /\ CallFails
            => \E l \in NewLogs :
                  l.level = "error" /\ l.ip = calls'[Len(calls')].ip
        /\ (LogLeaves("save_open") /\ pc'.log = "ban_notify")
            => \E l \in NewLogs : l.level = "error" /\ l.ip = cur.ip
        /\ Len(sweep'.unbans) = Len(sweep.unbans) + 1
            => LET u == sweep'.unbans[Len(sweep'.unbans)]
               IN  ~u.ok => u.logged
      ]_vars


---------------------------------------------------------------------------
(* C26 *)

\* C26: the sweeper's ticker runs on the configured cleanup interval: it is
\* created to fire first CleanupIntervalHours after its creation, and each
\* time it fires its next fire time is CleanupIntervalHours later.
C26_TickPeriodConfigured ==
    [][ ticker'.next # ticker.next
          => ticker'.next = (IF pc.sweeper = "newticker" THEN now ELSE ticker.next)
                               + CleanupIntervalHours
      ]_vars


---------------------------------------------------------------------------
(* C27 *)

\* The lookup made by the step, when it made one.
Looked == Len(calls') = Len(calls) + 1 /\ "lookup" \in DOMAIN calls'[Len(calls')]

\* The address is one of the pieces of the text.
Contains(text, ip) == \E i \in DOMAIN text : text[i] = ip

\* C27: a lookup makes between 1 and RetryCount + 1 attempts and has slept
\* RetryInterval before each attempt but the first; it fails only when all
\* RetryCount + 1 attempts failed; the text it gives names the address, also
\* when it failed; and the step that makes the lookup leaves failedAttempts
\* and bannedIPs as they are and goes on to the same place whatever the
\* lookup gave.
C27_LookupBoundedAndHarmless ==
    [][ Looked
          => LET c == calls'[Len(calls')]
             IN  /\ c.lookup.attempts \in 1..(RetryCount + 1)
                 /\ c.lookup.slept = (c.lookup.attempts - 1) * RetryInterval
                 /\ c.lookup.err # "nil" => c.lookup.attempts = RetryCount + 1
                 /\ Contains(c.ipInfo, c.ip)
                 /\ c.ip = cur.ip
                 /\ UNCHANGED <<failedAttempts, bannedIPs, mu, ufw, blacklistFile>>
                 /\ pc'.log = CASE pc.log = "hfl_notify" -> "hfl_unlock"
                                 [] pc.log = "ban_notify" -> "hfl_notify"
                                 [] pc.log = "hsl" -> "hsl_ret"
      ]_vars

\* A ban whose two lookups both failed after all their attempts: the
\* address is banned and counted as if they had succeeded.
C27_Witness ==
    /\ pc.log = "hfl_unlock"
    /\ Len(CallsOf("NotifyIPBanned")) = 1
    /\ \A i \in DOMAIN calls :
          "lookup" \in DOMAIN calls[i]
             => /\ calls[i].lookup.err # "nil"
                /\ calls[i].lookup.attempts = RetryCount + 1
                /\ calls[i].lookup.slept = RetryCount * RetryInterval
                /\ Len(calls[i].ipInfo) = 3
    /\ cur.ip \in DOMAIN bannedIPs
    /\ MapGet(failedAttempts, cur.ip) = MaxFailedAttempts


---------------------------------------------------------------------------
(* C28 *)

\* handleFailedLogin has counted the failure of ip that reaches the threshold
\* and, holding the store lock, is about to create the Ban Record.
AboutToBan(ip) == pc.log = "ban_set" /\ cur.ip = ip /\ mu.writer = "log"

\* C28: no address has a count above the threshold, and an address whose
\* count has reached the threshold has a Ban Record; the record is created
\* by the handler that counted the last failure, before it gives up the
\* store lock.
C28_CountBoundedByThreshold ==
    \A ip \in IPs :
       /\ MapGet(failedAttempts, ip) <= MaxFailedAttempts
       /\ (MapGet(failedAttempts, ip) >= MaxFailedAttempts /\ ~AboutToBan(ip))
             => ip \in DOMAIN bannedIPs

\* Between two events: one address at the threshold, with its record, and
\* the other one counted and below the threshold, without a record.
C28_Witness ==
    /\ pc.log = "read"
    /\ mu.writer = NoOwner
    /\ \E ip \in DOMAIN bannedIPs :
          MapGet(failedAttempts, ip) = MaxFailedAttempts
    /\ \E ip \in IPs \ DOMAIN bannedIPs :
          MapGet(failedAttempts, ip) \in 1..(MaxFailedAttempts - 1)


---------------------------------------------------------------------------
(* C29 *)

\* saveBlacklist has returned to banIP.
SaveReturned == pc.log = "ban_notify"

---------------------------------------------------------------------------
(* C30 *)

\* Start has returned the error of loadBlacklist.
LoadFailed == startErr \in {"loadBlacklist: open", "loadBlacklist: scan"}

\* C30: Start returns the error of a failed loadBlacklist without starting
\* the sweeper and without opening the log; a loadBlacklist without error
\* has put every address of the file into bannedIPs before the sweeper is
\* started, and the sweeper is started before the log is opened; so a failed
\* login from an address of the file, handled before the ban duration has
\* passed, is rejected as banned and not counted.
C30_StartInOrder ==
    [][ /\ LoadFailed'
            => /\ LogLeaves("start")
               /\ pc' = [log |-> "exited", sweeper |-> "none"]
               /\ logFile' = NoLog
        /\ (LogLeaves("start") /\ startErr' = "none")
            => /\ bannedIPs' = loadBlacklist(EmptyMap, blacklistFile, now)
               /\ pc' = [log |-> "spawn", sweeper |-> "none"]
               /\ logFile' = NoLog
        /\ LogLeaves("spawn")
            => /\ DOMAIN bannedIPs = LoadedKeys
               /\ pc' = [log |-> "open", sweeper |-> "newticker"]
               /\ logFile' = NoLog
        /\ (pc.log \in {"start", "spawn"}) => pc.sweeper = "none"
        /\ (LogLeaves("hfl_check") /\ cur.ip \in LoadedKeys
               /\ now < BanDurationHours)
            => /\ pc'.log = "hfl_unlock"
               /\ UNCHANGED <<failedAttempts, bannedIPs>>
      ]_vars

\* The first failed login handled comes from an address of the blacklist
\* file: it has been rejected, and nothing has been counted.
C30_Witness ==
    /\ pc.log = "hfl_unlock"
    /\ cur.ip \in LoadedKeys
    /\ cur.ip \in DOMAIN bannedIPs
    /\ failedAttempts = EmptyMap
    /\ Len(logs) = 1
    /\ logs[1].level = "warn"

=============================================================================
